---- MODULE Spec2Model ----
(***************************************************************************)
(* Method B of DataTreeDemo.ipynb: recursive_copy walks the groups of a    *)
(* netCDF4 source file, copies attributes, dimensions and variables into a *)
(* new file, and replaces every variable that has the 'time' dimension by  *)
(* its mean along that axis.                                               *)
(*                                                                         *)
(* A tree (source or destination file) is a record                         *)
(*   groups : the set of group paths (a path is a sequence of names)       *)
(*   attrs  : path -> attribute map                                        *)
(*   dims   : path -> sequence of dimensions, in declaration order         *)
(*   vars   : path -> sequence of variables, in declaration order          *)
(* Numbers held by variables are exact rationals <<num, den>>.             *)
(***************************************************************************)
EXTENDS Integers, Sequences, FiniteSets, TLC

VARIABLES src, dst, stack, status, visits, run

vars == <<src, dst, stack, status, visits, run>>

(***************************************************************************)
(* Bounds of the model.                                                    *)
(***************************************************************************)
MaxGroups == 2
MaxDimSize == 2

GroupNames == <<"observed", "model">>
DimNames == <<"time", "lat", "lon">>
DataTypes == {"i4", "f8"}

ReductionDim == "time"

(***************************************************************************)
(* Small helpers on sequences and rationals.                               *)
(***************************************************************************)
Range(s) == {s[i] : i \in 1..Len(s)}

Parent(p) == SubSeq(p, 1, Len(p) - 1)

Prefixes(p) == {SubSeq(p, 1, n) : n \in 0..Len(p)}

RECURSIVE GCD(_, _)
GCD(a, b) == IF b = 0 THEN a ELSE GCD(b, a % b)

Abs(n) == IF n < 0 THEN -n ELSE n

Rat(n, d) == LET g == GCD(Abs(n), d) IN <<n \div g, d \div g>>

RatAdd(x, y) == Rat(x[1] * y[2] + y[1] * x[2], x[2] * y[2])

RatDivInt(x, n) == Rat(x[1], x[2] * n)

\* Integer part of a rational, rounding toward zero.
Trunc(x) == IF x[1] >= 0 THEN x[1] \div x[2] ELSE -((-x[1]) \div x[2])

EmptyAttrs == [k \in {} |-> ""]

(***************************************************************************)
(* netCDF4 scoping: a dimension name used in group p resolves to the       *)
(* nearest declaration in p or one of its ancestors.                       *)
(***************************************************************************)
HasDim(tree, q, d) == \E i \in 1..Len(tree.dims[q]) : tree.dims[q][i].name = d

Scope(tree, p, d) == {q \in Prefixes(p) : q \in tree.groups /\ HasDim(tree, q, d)}

Resolves(tree, p, d) == Scope(tree, p, d) # {}

Owner(tree, p, d) ==
    CHOOSE q \in Scope(tree, p, d) : \A r \in Scope(tree, p, d) : Len(r) <= Len(q)

DimIndex(tree, q, d) == CHOOSE i \in 1..Len(tree.dims[q]) : tree.dims[q][i].name = d

DimOf(tree, p, d) == tree.dims[Owner(tree, p, d)][DimIndex(tree, Owner(tree, p, d), d)]

\* len(dim) as seen from group p; 0 stands for a name that resolves nowhere.
DimLen(tree, p, d) == IF Resolves(tree, p, d) THEN DimOf(tree, p, d).size ELSE 0

Shape(tree, p, dims) == [i \in 1..Len(dims) |-> DimLen(tree, p, dims[i])]

Indices(shape) ==
    {idx \in [1..Len(shape) -> 1..MaxDimSize] :
        \A i \in 1..Len(shape) : idx[i] <= shape[i]}

\* A loop over the child groups that stops after the first one.
FirstChildOnly(tree, p) ==
    LET c == SelectSeq(GroupNames, LAMBDA n : Append(p, n) \in tree.groups)
    IN IF c = <<>> THEN c ELSE <<c[1]>>

\* Child groups of p in enumeration order (src_group.groups.items()).
Children(tree, p) ==
    SelectSeq(GroupNames, LAMBDA n : Append(p, n) \in tree.groups)

(***************************************************************************)
(* Source files the copy is run on.  The root group declares the shared    *)
(* dimensions and the coordinate variables; every other group carries the  *)
(* same declarations of its own (dimensions that shadow or extend the      *)
(* root's, and at most one variable).  A variable may name a dimension     *)
(* that is declared nowhere: a file that breaks the resolution rule.       *)
(* Dimension tuples do not repeat a name.                                  *)
(***************************************************************************)
FixedDim(n, s) == [name |-> n, size |-> s, unlimited |-> FALSE]

UnlimitedDim(n) == [name |-> n, size |-> 0, unlimited |-> TRUE]

DimTuples ==
    {t \in UNION {[1..n -> Range(DimNames)] : n \in 0..Len(DimNames)} :
        \A i, j \in 1..Len(t) : i # j => t[i] # t[j]}

VarAttrs(n) ==
    CASE n = "precipitation" -> [units |-> "mm/hr"]
      [] n = "lat" -> [units |-> "degrees_north"]
      [] OTHER -> EmptyAttrs

VarDecl(n, t, ds) == [name |-> n, datatype |-> t, dimensions |-> ds, attrs |-> VarAttrs(n)]

GroupAttrs(p) ==
    IF p = <<>> THEN [title |-> "precipitation"] ELSE [title |-> p[Len(p)]]

Paths == UNION {[1..n -> Range(GroupNames)] : n \in 0..MaxGroups}

Topologies ==
    {g \in SUBSET Paths :
        /\ <<>> \in g
        /\ Cardinality(g) <= MaxGroups + 1
        /\ \A p \in g : p # <<>> => Parent(p) \in g}

RootDims ==
    {t \o l : t \in {<<>>, <<UnlimitedDim("time")>>},
              l \in {<<UnlimitedDim("lat")>>}
                    \cup {<<FixedDim("lat", s)>> : s \in {1, MaxDimSize}}}

RootVars ==
    {t \o l : t \in {<<>>, <<VarDecl("time", "f8", <<"time">>)>>},
              l \in {<<>>, <<VarDecl("lat", "f8", <<"lat">>)>>}}

ChildDims == {<<>>, <<FixedDim("time", MaxDimSize)>>, <<FixedDim("lon", 1)>>}

ChildVars ==
    {<<>>}
    \cup {<<VarDecl("precipitation", t, ds)>> : t \in DataTypes, ds \in DimTuples}
    \cup {<<VarDecl("lat", "f8", ds)>> : ds \in {d \in DimTuples : Len(d) <= 1}}
    \cup {<<VarDecl("time", "f8", ds)>> : ds \in {d \in DimTuples : Len(d) = 1}}

\* Some variable uses dimension d and the name resolves to the one declared in q.
Referenced(tree, q, d) ==
    \E p \in tree.groups : \E i \in 1..Len(tree.vars[p]) :
        /\ d \in Range(tree.vars[p][i].dimensions)
        /\ Resolves(tree, p, d)
        /\ Owner(tree, p, d) = q

\* Values stored in a source variable: distinct along every axis.
Weigh(idx) ==
    LET RECURSIVE W(_)
        W(i) == IF i = 0 THEN 0 ELSE (2 * i - 1) * idx[i] + W(i - 1)
    IN W(Len(idx))

\* The current length of an unlimited dimension is the extent of the
\* variables written along it: 0 when no variable uses it.
MkTree(groups, rdims, rvars, cdims, cvars) ==
    LET decl == [groups |-> groups,
                 attrs |-> [p \in groups |-> GroupAttrs(p)],
                 dims |-> [p \in groups |-> IF p = <<>> THEN rdims ELSE cdims],
                 vars |-> [p \in groups |-> IF p = <<>> THEN rvars ELSE cvars]]
        sized == [decl EXCEPT !.dims =
                    [p \in groups |->
                        [i \in 1..Len(decl.dims[p]) |->
                            IF decl.dims[p][i].unlimited
                                /\ Referenced(decl, p, decl.dims[p][i].name)
                            THEN [decl.dims[p][i] EXCEPT !.size = MaxDimSize]
                            ELSE decl.dims[p][i]]]]
    IN [sized EXCEPT !.vars =
            [p \in groups |->
                [i \in 1..Len(sized.vars[p]) |->
                    [name |-> sized.vars[p][i].name,
                     datatype |-> sized.vars[p][i].datatype,
                     dimensions |-> sized.vars[p][i].dimensions,
                     attrs |-> sized.vars[p][i].attrs,
                     data |-> [idx \in Indices(Shape(sized, p, sized.vars[p][i].dimensions))
                                |-> <<Weigh(idx), 1>>]]]]]

\* Every use of dimension d by a variable resolves.
DimResolves(tree, d) ==
    \A p \in tree.groups : \A i \in 1..Len(tree.vars[p]) :
        d \in Range(tree.vars[p][i].dimensions) => Resolves(tree, p, d)

\* The array of a variable is read along 'time' below, so 'time' has a length
\* wherever it is used; 'lon' may be left undeclared.
IsSource(tree) == DimResolves(tree, ReductionDim)

\* nc4.Dataset(..., 'w'): a new file holds an empty root group.
EmptyTree ==
    [groups |-> {<<>>},
     attrs |-> [p \in {<<>>} |-> EmptyAttrs],
     dims |-> [p \in {<<>>} |-> <<>>],
     vars |-> [p \in {<<>>} |-> <<>>]]

(***************************************************************************)
(* The call stack of recursive_copy.  A frame is the group being copied,   *)
(* the statement it is at and the position of the loop at that statement.  *)
(***************************************************************************)
Frame(p) == [path |-> p, pc |-> "setncatts", i |-> 1]

Top == stack[Len(stack)]

ReplaceTop(s, f) == [s EXCEPT ![Len(s)] = f]

\* recursive_copy with copy_vars called before copy_dims.
AfterVarsFirst(pc) ==
    CASE pc = "setncatts" -> "copy_vars"
      [] pc = "copy_vars" -> "copy_dims"
      [] pc = "copy_dims" -> "groups"
      [] OTHER -> "return"

\* The statements of recursive_copy in the order they run.
After(pc) ==
    CASE pc = "setncatts" -> "copy_dims"
      [] pc = "copy_dims" -> "copy_vars"
      [] pc = "copy_vars" -> "groups"
      [] OTHER -> "return"

\* The number of iterations of the loop a frame is at.
LoopLen(f) ==
    CASE f.pc = "copy_dims" -> Len(src.dims[f.path])
      [] f.pc = "copy_vars" -> Len(src.vars[f.path])
      [] f.pc = "groups" -> Len(Children(src, f.path))
      [] OTHER -> 1

\* Leave every loop that has run out and return from every call that has finished.
RECURSIVE Settle(_)
Settle(s) ==
    IF s = <<>> THEN s
    ELSE LET f == s[Len(s)] IN
         IF f.pc = "return" THEN Settle(SubSeq(s, 1, Len(s) - 1))
         ELSE IF f.i > LoopLen(f)
         THEN Settle(ReplaceTop(s, [f EXCEPT !.pc = After(f.pc), !.i = 1]))
         ELSE s

Continue(s) ==
    /\ stack' = Settle(s)
    /\ status' = IF Settle(s) = <<>> THEN "returned" ELSE "running"

\* An exception leaves recursive_copy and the cell: nothing after it runs.
Raise ==
    /\ stack' = <<>>
    /\ status' = "failed"

Init ==
    /\ \E g \in Topologies, rd \in RootDims, rv \in RootVars,
          cd \in ChildDims, cv \in ChildVars :
            /\ src = MkTree(g, rd, rv, cd, cv)
            /\ IsSource(src)
    /\ dst = EmptyTree
    /\ stack = <<Frame(<<>>)>>
    /\ status = "running"
    /\ visits = [p \in src.groups |-> 0]
    /\ run = 1

\* A copy that leaves the attributes out.
CopyNoAttrs(a) == EmptyAttrs

\* dst_group.setncatts({attr: src_group.getncattr(attr) ...})
CopyAttrs(a) == [k \in DOMAIN a |-> a[k]]

SetNcAtts ==
    /\ status = "running"
    /\ Top.pc = "setncatts"
    /\ dst' = [dst EXCEPT !.attrs[Top.path] = CopyAttrs(src.attrs[Top.path])]
    /\ visits' = [visits EXCEPT ![Top.path] = @ + 1]
    /\ Continue(ReplaceTop(stack, [Top EXCEPT !.pc = After("setncatts"), !.i = 1]))
    /\ UNCHANGED <<src, run>>

\* copy_dims with the isunlimited() test inverted.
NewDimensionInverted(dim) ==
    IF ~dim.unlimited THEN [name |-> dim.name, size |-> 0, unlimited |-> TRUE]
    ELSE [name |-> dim.name, size |-> dim.size, unlimited |-> FALSE]

\* copy_dims that creates every dimension with its current length.
NewDimensionFixed(dim) == [name |-> dim.name, size |-> dim.size, unlimited |-> FALSE]

\* createDimension(dim_name, None) or createDimension(dim_name, len(dim))
NewDimension(dim) ==
    IF dim.unlimited THEN [name |-> dim.name, size |-> 0, unlimited |-> TRUE]
    ELSE [name |-> dim.name, size |-> dim.size, unlimited |-> FALSE]

\* copy_dims without the test for 'time'.
SkipsNoDim(dim) == FALSE

SkipsDim(dim) == dim.name = ReductionDim

\* One iteration of the loop of copy_dims.
CopyDimStep(tree, p, dim) ==
    IF SkipsDim(dim) THEN tree
    ELSE IF HasDim(tree, p, dim.name) THEN tree
    ELSE [tree EXCEPT !.dims[p] = Append(@, NewDimension(dim))]

CopyDim ==
    /\ status = "running"
    /\ Top.pc = "copy_dims"
    /\ dst' = CopyDimStep(dst, Top.path, src.dims[Top.path][Top.i])
    /\ Continue(ReplaceTop(stack, [Top EXCEPT !.i = @ + 1]))
    /\ UNCHANGED <<src, visits, run>>

CoordinateNames == {"lat", "lon"}

\* tuple(d for d in dims if d != 'time')
NewDims(dims) == SelectSeq(dims, LAMBDA d : d # ReductionDim)

\* dims.index('time')
TimeAxis(dims) ==
    CHOOSE i \in 1..Len(dims) :
        dims[i] = ReductionDim /\ \A j \in 1..(i - 1) : dims[j] # ReductionDim

DropAxis(s, t) == SubSeq(s, 1, t - 1) \o SubSeq(s, t + 1, Len(s))

InsertAxis(s, t, k) == SubSeq(s, 1, t - 1) \o <<k>> \o SubSeq(s, t, Len(s))

\* data.mean(axis=t) of an array of the given shape
Mean(data, shape, t) ==
    LET RECURSIVE Sum(_, _)
        Sum(idx, k) ==
            IF k = 0 THEN <<0, 1>>
            ELSE RatAdd(data[InsertAxis(idx, t, k)], Sum(idx, k - 1))
    IN [idx \in Indices(DropAxis(shape, t)) |-> RatDivInt(Sum(idx, shape[t]), shape[t])]

\* Assigning to a variable converts every element to the variable's datatype.
Cast(datatype, x) == IF datatype = "i4" THEN <<Trunc(x), 1>> ELSE x

CastAll(datatype, data) == [idx \in DOMAIN data |-> Cast(datatype, data[idx])]

HasTime(dims) == ReductionDim \in Range(dims)

SkipsVar(var) == var.name = ReductionDim

CopiesAsIs(var) == var.name \in CoordinateNames \/ ~HasTime(var.dimensions)

\* The dimension tuple handed to createVariable.
TargetDims(var) ==
    IF CopiesAsIs(var) THEN var.dimensions ELSE NewDims(var.dimensions)

\* The array assigned to new_var[:].
TargetData(var, shape) ==
    IF CopiesAsIs(var) THEN var.data
    ELSE Mean(var.data, shape, TimeAxis(var.dimensions))

TargetShape(var, shape) ==
    IF CopiesAsIs(var) THEN shape ELSE DropAxis(shape, TimeAxis(var.dimensions))

\* createVariable raises unless every dimension is found in the group or a parent.
CanCreate(tree, p, dims) == \A d \in Range(dims) : Resolves(tree, p, d)

Max(a, b) == IF a >= b THEN a ELSE b

\* Writing along an unlimited dimension extends it to the extent written.
Grow(tree, p, dims, shape) ==
    [tree EXCEPT !.dims =
        [q \in tree.groups |->
            [k \in 1..Len(tree.dims[q]) |->
                LET dim == tree.dims[q][k]
                    axes == {i \in 1..Len(dims) :
                                dims[i] = dim.name /\ Owner(tree, p, dims[i]) = q}
                IN IF dim.unlimited /\ axes # {}
                   THEN [dim EXCEPT !.size = Max(@, shape[CHOOSE i \in axes : TRUE])]
                   ELSE dim]]]

\* createVariable, setncatts and new_var[:] = ... of one loop iteration.
NewVariable(var, shape) ==
    [name |-> var.name,
     datatype |-> var.datatype,
     dimensions |-> TargetDims(var),
     attrs |-> CopyAttrs(var.attrs),
     data |-> CastAll(var.datatype, TargetData(var, shape))]

CopyVarStep(tree, p, var, shape) ==
    IF SkipsVar(var) THEN tree
    ELSE Grow([tree EXCEPT !.vars[p] = Append(@, NewVariable(var, shape))],
              p, TargetDims(var), TargetShape(var, shape))

CopyVar ==
    /\ status = "running"
    /\ Top.pc = "copy_vars"
    /\ LET var == src.vars[Top.path][Top.i] IN
       IF ~SkipsVar(var) /\ ~CanCreate(dst, Top.path, TargetDims(var))
       THEN Raise /\ UNCHANGED dst
       ELSE /\ dst' = CopyVarStep(dst, Top.path, var,
                                  Shape(src, Top.path, var.dimensions))
            /\ Continue(ReplaceTop(stack, [Top EXCEPT !.i = @ + 1]))
    /\ UNCHANGED <<src, visits, run>>

\* dst_group.createGroup(name)
NewGroup(tree, p) ==
    [groups |-> tree.groups \cup {p},
     attrs |-> [q \in tree.groups \cup {p} |-> IF q \in tree.groups THEN tree.attrs[q] ELSE EmptyAttrs],
     dims |-> [q \in tree.groups \cup {p} |-> IF q \in tree.groups THEN tree.dims[q] ELSE <<>>],
     vars |-> [q \in tree.groups \cup {p} |-> IF q \in tree.groups THEN tree.vars[q] ELSE <<>>]]

ChildPath(p, i) == Append(p, Children(src, p)[i])

\* One iteration of the loop over src_group.groups: create the group and recurse.
CreateGroup ==
    /\ status = "running"
    /\ Top.pc = "groups"
    /\ dst' = NewGroup(dst, ChildPath(Top.path, Top.i))
    /\ stack' = Append(ReplaceTop(stack, [Top EXCEPT !.i = @ + 1]),
                       Frame(ChildPath(Top.path, Top.i)))
    /\ UNCHANGED <<src, status, visits, run>>

\* src.close(); dst.close()
Close ==
    /\ status = "returned"
    /\ status' = "closed"
    /\ UNCHANGED <<src, dst, stack, visits, run>>

\* The file written by the first run is opened as the source of a second run.
Rerun ==
    /\ status = "closed"
    /\ run = 1
    /\ src' = dst
    /\ dst' = EmptyTree
    /\ stack' = <<Frame(<<>>)>>
    /\ status' = "running"
    /\ visits' = [p \in dst.groups |-> 0]
    /\ run' = 2

Next ==
    \/ SetNcAtts
    \/ CopyDim
    \/ CopyVar
    \/ CreateGroup
    \/ Close
    \/ Rerun

Spec == Init /\ [][Next]_vars

(***************************************************************************)
(* Properties.                                                             *)
(***************************************************************************)
Completed == status \in {"returned", "closed"}

Ended == status \in {"closed", "failed"}

\* Every dimension named by a variable of the tree resolves.
AllResolve(tree) == \A i \in 1..Len(DimNames) : DimResolves(tree, DimNames[i])

\* A variable of the coordinate list that has the 'time' dimension.
CoordinateOverTime(tree) ==
    \E p \in tree.groups : \E v \in Range(tree.vars[p]) :
        v.name \in CoordinateNames /\ HasTime(v.dimensions)

\* A variable that is copied uses dimension d, resolved to the one declared in q.
CopiedReference(tree, q, d) ==
    \E p \in tree.groups : \E v \in Range(tree.vars[p]) :
        /\ ~SkipsVar(v)
        /\ d \in Range(v.dimensions)
        /\ Resolves(tree, p, d)
        /\ Owner(tree, p, d) = q

\* C1: once recursive_copy has returned, a group exists at a path of the
\* destination exactly when a group exists at that path of the source.
C1_SameTopology == Completed => dst.groups = src.groups

C1_Witness ==
    /\ status = "closed"
    /\ run = 1
    /\ \E p \in src.groups : Len(p) = 2 /\ p \in dst.groups

\* C2: in every state of a run no destination group holds a dimension or a
\* variable named 'time', and no destination variable has 'time' among its
\* dimensions, also when a 'lat' or 'lon' variable of the source uses 'time'.
C2_NoTimeInDestination ==
    \A p \in dst.groups :
        /\ ~HasDim(dst, p, ReductionDim)
        /\ \A v \in Range(dst.vars[p]) :
              v.name # ReductionDim /\ ~HasTime(v.dimensions)

C2_Witness ==
    /\ status = "failed"
    /\ CoordinateOverTime(src)
    /\ HasDim(src, <<>>, ReductionDim)
    /\ \E v \in Range(src.vars[<<>>]) : v.name = ReductionDim
    /\ dst.dims[<<>>] # <<>>

\* C3: a destination variable whose source variable has the 'time' dimension
\* has the source's dimensions without 'time', one dimension fewer, and at
\* every index the arithmetic mean of the source along the 'time' axis.
C3_MeanOverTime ==
    \A p \in src.groups \cap dst.groups :
        \A v \in Range(src.vars[p]) : \A w \in Range(dst.vars[p]) :
            (w.name = v.name /\ HasTime(v.dimensions)) =>
                /\ w.dimensions = NewDims(v.dimensions)
                /\ Len(w.dimensions) = Len(v.dimensions) - 1
                /\ w.data = Mean(v.data, Shape(src, p, v.dimensions),
                                 TimeAxis(v.dimensions))

\* C4: after recursive_copy has returned, every source variable that is not
\* named 'time' and does not use 'time' has a destination variable in the
\* same group with the same name, datatype, dimensions, attributes and values.
C4_VerbatimCopy ==
    Completed =>
        \A p \in src.groups : \A v \in Range(src.vars[p]) :
            (~SkipsVar(v) /\ ~HasTime(v.dimensions)) =>
                /\ p \in dst.groups
                /\ \E w \in Range(dst.vars[p]) :
                      /\ w.name = v.name
                      /\ w.datatype = v.datatype
                      /\ w.dimensions = v.dimensions
                      /\ w.attrs = v.attrs
                      /\ w.data = v.data

C4_Witness ==
    /\ status = "closed"
    /\ run = 1
    /\ \E p \in src.groups : \E v \in Range(src.vars[p]) :
          /\ v.name = "precipitation"
          /\ v.dimensions = <<"lon", "lat">>
          /\ \E w \in Range(dst.vars[p]) : w.name = v.name

\* C5: once the operation has ended, every source variable named 'lat' or
\* 'lon' has an identical destination variable, whether or not it uses 'time'.
C5_CoordinatesIdentical ==
    (Ended /\ AllResolve(src)) =>
        \A p \in src.groups : \A v \in Range(src.vars[p]) :
            v.name \in CoordinateNames =>
                p \in dst.groups /\ v \in Range(dst.vars[p])

\* C6: a second run, on the file the first run wrote, writes a file equal to
\* its source in groups, attributes, dimensions, variables and values.
C6_SecondRunIsCopy == (run = 2 /\ Completed) => dst = src

C6_Witness ==
    /\ run = 2
    /\ status = "closed"
    /\ Cardinality(src.groups) >= 3
    /\ \E p \in src.groups : \E k \in 1..Len(src.dims[p]) : src.dims[p][k].unlimited
    /\ \E p \in src.groups : \E v \in Range(src.vars[p]) :
          \E idx \in DOMAIN v.data : v.data[idx][2] # 1

C8_Exhaustive ==
    (Ended /\ AllResolve(src)) =>
        \A p \in src.groups :
            /\ visits[p] = 1
            /\ p \in dst.groups
            /\ \A v \in Range(src.vars[p]) :
                  ~SkipsVar(v) => \E w \in Range(dst.vars[p]) : w.name = v.name
            /\ \A d \in Range(src.dims[p]) :
                  ~SkipsDim(d) => HasDim(dst, p, d.name)

\* A dimension whose name the destination group already has is skipped and
\* the destination is left as it is.
DuplicateSkipped ==
    \A p \in dst.groups : \A k \in 1..Len(dst.dims[p]) :
        \A dim \in {UnlimitedDim(dst.dims[p][k].name)}
                   \cup {FixedDim(dst.dims[p][k].name, n) : n \in 1..MaxDimSize} :
            CopyDimStep(dst, p, dim) = dst

\* C9 as stated: after recursive_copy has returned, every source dimension
\* not named 'time' has a destination dimension of the same name, kind and
\* length in the same group, and a name already present is skipped.
C9_DimensionsEqual ==
    /\ DuplicateSkipped
    /\ Completed =>
          \A p \in src.groups : \A d \in Range(src.dims[p]) :
              ~SkipsDim(d) => p \in dst.groups /\ d \in Range(dst.dims[p])

\* C9: after recursive_copy has returned, every source dimension not named
\* 'time' has a destination dimension of the same name in the same group: of
\* the same size when fixed; unlimited when unlimited, with the source's
\* length when a copied variable uses it and length 0 otherwise.  A name
\* already present in the destination group is skipped.
C9_DimensionsCopied ==
    /\ DuplicateSkipped
    /\ Completed =>
          \A p \in src.groups : \A d \in Range(src.dims[p]) :
              ~SkipsDim(d) =>
                  /\ p \in dst.groups
                  /\ \E e \in Range(dst.dims[p]) :
                        /\ e.name = d.name
                        /\ e.unlimited = d.unlimited
                        /\ e.size = IF d.unlimited /\ ~CopiedReference(src, p, d.name)
                                    THEN 0 ELSE d.size

C9_Witness ==
    /\ status = "closed"
    /\ run = 1
    /\ \E p \in src.groups : \E d \in Range(src.dims[p]) :
          /\ ~SkipsDim(d)
          /\ d.unlimited
          /\ d.size > 0
          /\ ~CopiedReference(src, p, d.name)
    /\ \E p \in src.groups : \E d \in Range(src.dims[p]) :
          /\ ~SkipsDim(d)
          /\ ~d.unlimited
          /\ d \in Range(dst.dims[p])

\* C10: when every dimension of the source resolves and no 'lat' or 'lon'
\* variable uses 'time', each variable is created when all dimensions of its
\* destination tuple exist in the destination group or an ancestor, and the
\* run does not fail.
C10_DimensionsBeforeVariables ==
    (AllResolve(src) /\ ~CoordinateOverTime(src)) =>
        /\ status # "failed"
        /\ (status = "running" /\ Top.pc = "copy_vars"
              /\ ~SkipsVar(src.vars[Top.path][Top.i])) =>
                CanCreate(dst, Top.path, TargetDims(src.vars[Top.path][Top.i]))

C10_Witness ==
    /\ status = "running"
    /\ run = 1
    /\ Top.pc = "copy_vars"
    /\ Len(Top.path) = 2
    /\ AllResolve(src)
    /\ ~CoordinateOverTime(src)
    /\ LET v == src.vars[Top.path][Top.i] IN
          /\ v.dimensions = <<"lat", "time", "lon">>
          /\ Owner(src, Top.path, "lat") = <<>>
          /\ Owner(src, Top.path, "lon") = Top.path

====
